---- MODULE Spec2Model ----
(***************************************************************************)
(* State-machine model of dem.py: a 2-D discrete-element simulation with a *)
(* reflecting vertical axis and a periodic horizontal axis.                *)
(*                                                                         *)
(* Real numbers are fixed-point integers.  One position unit is length/48, *)
(* one time unit is dt; every division rounds down.  The grid, the grain   *)
(* count and the radii are scaled down so that the assertion               *)
(* grain_r_max * 2 < grid_size of the source still holds.  Vectors are     *)
(* pairs <<x, y>>: component 1 is the periodic axis (p[0] in the source),  *)
(* component 2 the bounded axis (p[1]).                                    *)
(***************************************************************************)
EXTENDS Integers, FiniteSets, Sequences, TLC

\* ---------------------------------------------------------------- constants
n == 3                  \* number of grains
density == 1            \* density * pi, in model units
stiffness == 16
gravity == -1
dt == 1
length == 48
grid_n == 3
grain_r_min == 6
grain_r_max == 7
grid_size == length \div grid_n

\* bounce_coef = 0.3 as a fraction
bounce_num == 3
bounce_den == 10
\* 1 / sqrt(1 + (pi / log(restitution_coef))^2) = 0.91 as a fraction
damp_num == 91
damp_den == 100
\* fixed-point scale of a unit vector
norm_scale == 16

\* ------------------------------------------------------------------- bounds
MaxSubsteps == 2        \* substeps followed from the initial state
MaxSpeed == 2           \* largest initial velocity component

Grains == 0 .. (n - 1)
Cells == 0 .. (grid_n - 1)
LinearCells == 0 .. (grid_n * grid_n - 1)
GridIdx == Cells \X Cells

\* ------------------------------------------------------------ vector algebra
VAdd(u, w) == <<u[1] + w[1], u[2] + w[2]>>
VSub(u, w) == <<u[1] - w[1], u[2] - w[2]>>
VNeg(u) == <<-u[1], -u[2]>>
VMul(u, w) == <<u[1] * w[1], u[2] * w[2]>>
VScale(k, u) == <<k * u[1], k * u[2]>>
VDiv(u, k) == <<u[1] \div k, u[2] \div k>>
Dot(u, w) == u[1] * w[1] + u[2] * w[2]
Zero == <<0, 0>>

\* ti.sqrt, rounded down: the k in lo .. hi with k * k <= s < (k + 1) * (k + 1)
RECURSIVE SqrtIn(_, _, _)
SqrtIn(lo, hi, s) ==
  IF lo = hi THEN lo
  ELSE LET k == (lo + hi + 1) \div 2
       IN  IF k * k <= s THEN SqrtIn(k, hi, s) ELSE SqrtIn(lo, k - 1, s)
Sqrt(s) == SqrtIn(0, s, s)

VARIABLES
  gf,            \* Grain.field: grain -> [p, m, r, v, a, f]
  grain_count,   \* (cell x, cell y) -> grains counted in the cell
  column_sum,    \* cell x -> grains in the column
  prefix_sum,    \* (cell x, cell y) -> running count
  list_head,     \* linear cell -> first slot of the cell
  list_cur,      \* linear cell -> insertion cursor of the cell
  list_tail,     \* linear cell -> one past the last slot of the cell
  particle_id,   \* slot -> grain
  pc,            \* the stage of the substep that runs next
  todo,          \* grains whose iteration of the running parallel loop is to come
  mid,           \* grains between atomic_add and the particle_id write
  grain_location,\* grain -> the slot atomic_add returned to it
  hits,          \* (i, j) -> contacts resolve(i, j, _) applied this substep
  nan,           \* resolve divided by a zero distance
  step           \* substeps completed

vars == <<gf, grain_count, column_sum, prefix_sum, list_head, list_cur,
          list_tail, particle_id, pc, todo, mid, grain_location, hits, nan,
          step>>

grid == <<grain_count, column_sum, prefix_sum, list_head, list_cur, list_tail,
          particle_id, grain_location>>

\* ------------------------------------------------------------------- init()
\* gf[i].m = density * math.pi * gf[i].r**2
Mass(r) == density * r * r

Grain(p, v, r) ==
  [p |-> p, m |-> Mass(r), r |-> r, v |-> v, a |-> Zero, f |-> Zero]

\* What a grain can be when a substep begins, every position inside the
\* domain: left of the periodic edge and moving across it, right of the edge
\* and below its radius, at rest in the first cell, and above length - radius.
InitGrains ==
  {Grain(<<1, 8>>, <<-MaxSpeed, 0>>, grain_r_min),
   Grain(<<47, 4>>, <<MaxSpeed - 1, 1>>, grain_r_max),
   Grain(<<9, 14>>, <<0, 0>>, grain_r_min),
   Grain(<<47, 44>>, <<MaxSpeed, -1>>, grain_r_max)}

Init ==
  /\ gf \in [Grains -> InitGrains]
  /\ \A i, j \in Grains : i # j => gf[i] # gf[j]
  /\ grain_count = [c \in GridIdx |-> 0]
  /\ column_sum = [c \in Cells |-> 0]
  /\ prefix_sum = [c \in GridIdx |-> 0]
  /\ list_head = [c \in LinearCells |-> 0]
  /\ list_cur = [c \in LinearCells |-> 0]
  /\ list_tail = [c \in LinearCells |-> 0]
  /\ particle_id = [s \in Grains |-> 0]
  /\ pc = "apply_gravity"
  /\ todo = {}
  /\ mid = {}
  /\ grain_location = [i \in Grains |-> 0]
  /\ hits = [c \in Grains \X Grains |-> 0]
  /\ nan = FALSE
  /\ step = 0

\* ---------------------------------------------------------- apply_gravity()
GravityForce(g) == <<0, gravity * g.m>>

apply_gravity == [i \in Grains |-> [gf[i] EXCEPT !.f = GravityForce(gf[i])]]

ApplyGravity ==
  /\ pc = "apply_gravity"
  /\ step < MaxSubsteps
  /\ gf' = apply_gravity
  /\ pc' = "contact"
  /\ UNCHANGED <<grid, todo, mid, hits, nan, step>>

\* ----------------------------------------------------------------- update()
\* update with the position advanced by the stored acceleration
update_stored_acceleration(g) ==
  LET a == VDiv(g.f, g.m)
      v == VAdd(g.v, VDiv(VScale(dt, VAdd(g.a, a)), 2))
      p == VAdd(g.p, VAdd(VScale(dt, v), VDiv(VScale(dt * dt, g.a), 2)))
  IN  [g EXCEPT !.v = v, !.p = p, !.a = a]

update(g) ==
  LET a == VDiv(g.f, g.m)
      v == VAdd(g.v, VDiv(VScale(dt, VAdd(g.a, a)), 2))
      p == VAdd(g.p, VAdd(VScale(dt, v), VDiv(VScale(dt * dt, a), 2)))
  IN  [g EXCEPT !.v = v, !.p = p, !.a = a]

Update ==
  /\ pc = "update"
  /\ gf' = [i \in Grains |-> update(gf[i])]
  /\ pc' = "apply_gravity"
  /\ step' = step + 1
  /\ UNCHANGED <<grid, todo, mid, hits, nan>>

\* --------------------------------------------------------------- apply_bc()
Bounce(vy) == (vy * (-bounce_num)) \div bounce_den

\* apply_bc with the ceiling tested on the centre of the grain
apply_bc_ceiling_at_centre(g) ==
  LET x == g.p[1]
      y == g.p[2]
      py == IF y - g.r < 0 THEN g.r
            ELSE IF y > length THEN length - g.r
            ELSE y
      vy == IF y - g.r < 0 THEN Bounce(g.v[2])
            ELSE IF y > length THEN Bounce(g.v[2])
            ELSE g.v[2]
      px == IF x < 0 THEN x + length
            ELSE IF x > length THEN x - length
            ELSE x
  IN  [g EXCEPT !.p = <<px, py>>, !.v = <<g.v[1], vy>>]

apply_bc(g) ==
  LET x == g.p[1]
      y == g.p[2]
      py == IF y - g.r < 0 THEN g.r
            ELSE IF y + g.r > length THEN length - g.r
            ELSE y
      vy == IF y - g.r < 0 THEN Bounce(g.v[2])
            ELSE IF y + g.r > length THEN Bounce(g.v[2])
            ELSE g.v[2]
      px == IF x < 0 THEN x + length
            ELSE IF x > length THEN x - length
            ELSE x
  IN  [g EXCEPT !.p = <<px, py>>, !.v = <<g.v[1], vy>>]

ApplyBc ==
  /\ pc = "apply_bc"
  /\ gf' = [i \in Grains |-> apply_bc(gf[i])]
  /\ pc' = "update"
  /\ UNCHANGED <<grid, todo, mid, hits, nan, step>>

\* ---------------------------------------------------------------- resolve()
\* rel_pos = gf[j].p - gf[i].p; rel_pos[0] -= shift
RelPos(i, j, shift) ==
  LET d == VSub(gf[j].p, gf[i].p) IN <<d[1] - shift, d[2]>>

Dist(i, j, shift) ==
  LET rel_pos == RelPos(i, j, shift)
  IN  Sqrt(rel_pos[1] * rel_pos[1] + rel_pos[2] * rel_pos[2])

\* delta = -dist + gf[i].r + gf[j].r
Delta(i, j, shift) == -Dist(i, j, shift) + gf[i].r + gf[j].r

\* normal = rel_pos / dist, a unit vector scaled by norm_scale
Normal(i, j, shift) ==
  VDiv(VScale(norm_scale, RelPos(i, j, shift)), Dist(i, j, shift))

\* f1 = normal * delta * stiffness
ElasticForce(i, j, shift) ==
  VDiv(VScale(Delta(i, j, shift) * stiffness, Normal(i, j, shift)), norm_scale)

\* C = 2 * (1 / sqrt(1 + (pi / log(restitution_coef))^2)) * sqrt(K * M)
DampCoef(i, j) ==
  LET M == (gf[i].m * gf[j].m) \div (gf[i].m + gf[j].m)
      K == stiffness
  IN  (2 * damp_num * Sqrt(K * M)) \div damp_den

\* V = (gf[j].v - gf[i].v) * normal; f2 = C * V * normal
\* the product of two vectors is taken component by component
DampForce(i, j, shift) ==
  LET normal == Normal(i, j, shift)
      V == VMul(VSub(gf[j].v, gf[i].v), normal)
  IN  VDiv(VScale(DampCoef(i, j), VMul(V, normal)), norm_scale * norm_scale)

\* resolve with gf[j].f -= f2 + f1
resolve_sign_slip(i, j, shift) ==
  IF Dist(i, j, shift) = 0
  THEN [contact |-> FALSE, nan |-> TRUE, fi |-> Zero, fj |-> Zero]
  ELSE IF Delta(i, j, shift) > 0
  THEN LET f1 == ElasticForce(i, j, shift)
           f2 == DampForce(i, j, shift)
       IN  [contact |-> TRUE, nan |-> FALSE,
            fi |-> VSub(f2, f1), fj |-> VNeg(VAdd(f2, f1))]
  ELSE [contact |-> FALSE, nan |-> FALSE, fi |-> Zero, fj |-> Zero]

\* What one call adds to gf[i].f (fi) and to gf[j].f (fj): f2 - f1 and
\* -(f2 - f1).  A zero distance makes normal 0 / 0; the model stops there.
resolve(i, j, shift) ==
  IF Dist(i, j, shift) = 0
  THEN [contact |-> FALSE, nan |-> TRUE, fi |-> Zero, fj |-> Zero]
  ELSE IF Delta(i, j, shift) > 0
  THEN LET f1 == ElasticForce(i, j, shift)
           f2 == DampForce(i, j, shift)
       IN  [contact |-> TRUE, nan |-> FALSE,
            fi |-> VSub(f2, f1), fj |-> VNeg(VSub(f2, f1))]
  ELSE [contact |-> FALSE, nan |-> FALSE, fi |-> Zero, fj |-> Zero]

\* ---------------------------------------------------------------- contact()
\* grid_idx = ti.floor(gf[i].p * grid_n / length, int)
CellOf(p) == <<(p[1] * grid_n) \div length, (p[2] * grid_n) \div length>>

LinearIdx(c) == c[1] * grid_n + c[2]

CellOfLinear(k) == <<k \div grid_n, k % grid_n>>

\* grain_count.fill(0)
ContactFill ==
  /\ pc = "contact"
  /\ grain_count' = [c \in GridIdx |-> 0]
  /\ hits' = [c \in Grains \X Grains |-> 0]
  /\ grain_location' = [i \in Grains |-> 0]
  /\ todo' = Grains
  /\ pc' = "count"
  /\ UNCHANGED <<gf, column_sum, prefix_sum, list_head, list_cur, list_tail,
                 particle_id, mid, nan, step>>

\* grain_count[grid_idx] += 1.  An index outside the field is an unchecked
\* access: the increment lands outside the field (no cell changes), on the
\* cell its linearised address falls on, or on the cell it wraps to.
CountTargets(i) ==
  LET c == CellOf(gf[i].p)
  IN  IF c \in GridIdx THEN {<<c>>}
      ELSE {<<>>, <<(<<c[1] % grid_n, c[2] % grid_n>>)>>}
           \cup {<<CellOfLinear(k)>> : k \in {LinearIdx(c)} \cap LinearCells}

CountGrain(i) ==
  /\ pc = "count"
  /\ i \in todo
  /\ \E t \in CountTargets(i) :
       grain_count' = IF t = <<>> THEN grain_count
                      ELSE [grain_count EXCEPT ![t[1]] = @ + 1]
  /\ todo' = todo \ {i}
  /\ pc' = IF todo' = {} THEN "column_sum" ELSE "count"
  /\ UNCHANGED <<gf, column_sum, prefix_sum, list_head, list_cur, list_tail,
                 particle_id, mid, grain_location, hits, nan, step>>

\* sum = 0; for j in range(grid_n): sum += grain_count[i, j]
RECURSIVE ColumnTotal(_, _)
ColumnTotal(i, j) ==
  IF j = 0 THEN 0 ELSE ColumnTotal(i, j - 1) + grain_count[<<i, j - 1>>]

ColumnSum ==
  /\ pc = "column_sum"
  /\ column_sum' = [i \in Cells |-> ColumnTotal(i, grid_n)]
  /\ pc' = "prefix_rows"
  /\ UNCHANGED <<gf, grain_count, prefix_sum, list_head, list_cur, list_tail,
                 particle_id, todo, mid, grain_location, hits, nan, step>>

\* prefix_sum[0, 0] = 0; prefix_sum[i, 0] = prefix_sum[i - 1, 0] + column_sum[i - 1]
RECURSIVE RowBase(_)
RowBase(i) == IF i = 0 THEN 0 ELSE RowBase(i - 1) + column_sum[i - 1]

PrefixRows ==
  /\ pc = "prefix_rows"
  /\ prefix_sum' = [c \in GridIdx |->
                      IF c[2] = 0 THEN RowBase(c[1]) ELSE prefix_sum[c]]
  /\ pc' = "prefix_cells"
  /\ UNCHANGED <<gf, grain_count, column_sum, list_head, list_cur, list_tail,
                 particle_id, todo, mid, grain_location, hits, nan, step>>

\* prefix_sum[i, 0] += grain_count[i, 0];
\* prefix_sum[i, j] = prefix_sum[i, j - 1] + grain_count[i, j]
RECURSIVE CellEnd(_)
CellEnd(c) ==
  IF c[2] = 0 THEN prefix_sum[c] + grain_count[c]
  ELSE CellEnd(<<c[1], c[2] - 1>>) + grain_count[c]

PrefixCells ==
  /\ pc = "prefix_cells"
  /\ prefix_sum' = [c \in GridIdx |-> CellEnd(c)]
  /\ list_head' = [k \in LinearCells |->
                     CellEnd(CellOfLinear(k)) - grain_count[CellOfLinear(k)]]
  /\ list_cur' = list_head'
  /\ list_tail' = [k \in LinearCells |-> CellEnd(CellOfLinear(k))]
  /\ todo' = Grains
  /\ pc' = "scatter"
  /\ UNCHANGED <<gf, grain_count, column_sum, particle_id, mid,
                 grain_location, hits, nan, step>>

\* grain_location = ti.atomic_add(list_cur[linear_idx], 1).  A linear index
\* outside list_cur is an unchecked access: it reads and bumps the cursor it
\* wraps to, or it reads memory outside the field, whose value is arbitrary
\* (-1 stands for every value that is no slot), and leaves the field as it is.
Claim(k) ==
  [slot |-> list_cur[k], cur |-> [list_cur EXCEPT ![k] = @ + 1]]

ClaimTargets(i) ==
  LET linear_idx == LinearIdx(CellOf(gf[i].p))
  IN  IF linear_idx \in LinearCells THEN {Claim(linear_idx)}
      ELSE {Claim(linear_idx % (grid_n * grid_n))}
           \cup {[slot |-> s, cur |-> list_cur] : s \in -1 .. (n - 1)}

ScatterClaim(i) ==
  /\ pc = "scatter"
  /\ i \in todo
  /\ \E t \in ClaimTargets(i) :
       /\ grain_location' = [grain_location EXCEPT ![i] = t.slot]
       /\ list_cur' = t.cur
  /\ todo' = todo \ {i}
  /\ mid' = mid \cup {i}
  /\ UNCHANGED <<gf, grain_count, column_sum, prefix_sum, list_head,
                 list_tail, particle_id, pc, hits, nan, step>>

\* particle_id[grain_location] = i.  A slot outside particle_id is an
\* unchecked access: the write lands outside the field or on the slot it
\* wraps to.
WriteTargets(i) ==
  IF grain_location[i] \in Grains
  THEN {[particle_id EXCEPT ![grain_location[i]] = i]}
  ELSE {particle_id, [particle_id EXCEPT ![grain_location[i] % n] = i]}

ScatterWrite(i) ==
  /\ pc = "scatter"
  /\ i \in mid
  /\ particle_id' \in WriteTargets(i)
  /\ mid' = mid \ {i}
  /\ todo' = IF todo = {} /\ mid' = {} THEN Grains ELSE todo
  /\ pc' = IF todo = {} /\ mid' = {} THEN "resolve" ELSE "scatter"
  /\ UNCHANGED <<gf, grain_count, column_sum, prefix_sum, list_head, list_cur,
                 list_tail, grain_location, hits, nan, step>>

\* The neighbour slots grain i visits: <<x_i, neigh_j, p_idx>>.
Neighbours(i) ==
  LET grid_idx == CellOf(gf[i].p)
      x_begin == grid_idx[1] - 1
      x_end == grid_idx[1] + 2
      y_begin == IF grid_idx[2] - 1 > 0 THEN grid_idx[2] - 1 ELSE 0
      y_end == IF grid_idx[2] + 2 < grid_n THEN grid_idx[2] + 2 ELSE grid_n
  IN  UNION {
        UNION {
          LET neigh_linear_idx == (x_i % grid_n) * grid_n + neigh_j
          IN  {<<x_i, neigh_j, p_idx>> :
                 p_idx \in list_head[neigh_linear_idx] ..
                           (list_tail[neigh_linear_idx] - 1)}
          : neigh_j \in y_begin .. (y_end - 1)}
        : x_i \in x_begin .. (x_end - 1)}

\* resolve(i, j, 0), resolve(i, j, length) or resolve(i, j, -length)
Shift(x_i) ==
  IF x_i # -1 /\ x_i # grid_n THEN 0
  ELSE IF x_i = -1 THEN length
  ELSE -length

\* The calls of resolve grain i makes: j = particle_id[p_idx], if i < j.
Calls(i) ==
  {[j |-> particle_id[c[3]], shift |-> Shift(c[1]), at |-> c] :
     c \in {d \in Neighbours(i) : i < particle_id[d[3]]}}

RECURSIVE SumForce(_, _, _)
SumForce(i, calls, k) ==
  IF calls = {} THEN Zero
  ELSE LET c == CHOOSE c \in calls : TRUE
           r == resolve(i, c.j, c.shift)
           f == IF k = i THEN r.fi ELSE IF k = c.j THEN r.fj ELSE Zero
       IN  VAdd(f, SumForce(i, calls \ {c}, k))

Resolve(i) ==
  /\ pc = "resolve"
  /\ i \in todo
  /\ LET calls == Calls(i)
         bad == \E c \in calls : resolve(i, c.j, c.shift).nan
     IN  /\ nan' = bad
         /\ gf' = IF bad THEN gf
                  ELSE [k \in Grains |->
                          [gf[k] EXCEPT !.f = VAdd(@, SumForce(i, calls, k))]]
         /\ hits' = IF bad THEN hits
                    ELSE [c \in Grains \X Grains |->
                            hits[c] + Cardinality(
                              {d \in calls : /\ c = <<i, d.j>>
                                             /\ resolve(i, d.j, d.shift).contact})]
         /\ todo' = todo \ {i}
         /\ pc' = IF bad THEN "nan"
                  ELSE IF todo' = {} THEN "apply_bc" ELSE "resolve"
  /\ UNCHANGED <<grid, mid, step>>

Next ==
  \/ ApplyGravity
  \/ ContactFill
  \/ \E i \in Grains : CountGrain(i)
  \/ ColumnSum
  \/ PrefixRows
  \/ PrefixCells
  \/ \E i \in Grains : ScatterClaim(i)
  \/ \E i \in Grains : ScatterWrite(i)
  \/ \E i \in Grains : Resolve(i)
  \/ ApplyBc
  \/ Update

Spec == Init /\ [][Next]_vars

\* ------------------------------------------------------------------- claims
Slots(k) == list_head[k] .. (list_tail[k] - 1)

RECURSIVE ContactForceSum(_)
ContactForceSum(S) ==
  IF S = {} THEN Zero
  ELSE LET i == CHOOSE i \in S : TRUE
       IN  VAdd(VSub(gf[i].f, GravityForce(gf[i])), ContactForceSum(S \ {i}))

Shifts == {0, length, -length}

\* C1: once the grid build has finished, the cell ranges
\* [list_head[c], list_tail[c]) are pairwise disjoint, their union is
\* 0 .. n - 1, and particle_id holds every grain exactly once.
C1_GridPartition ==
  pc = "resolve" =>
    /\ \A k1, k2 \in LinearCells : k1 # k2 => Slots(k1) \cap Slots(k2) = {}
    /\ UNION {Slots(k) : k \in LinearCells} = Grains
    /\ \A i \in Grains : Cardinality({s \in Grains : particle_id[s] = i}) = 1

\* C2: once the grid build has finished, every grain found in the slots of a
\* cell has a position whose cell is that cell.
C2_CellMembership ==
  pc = "resolve" =>
    \A k \in LinearCells : \A s \in Slots(k) :
      s \in Grains /\ CellOf(gf[particle_id[s]].p) = CellOfLinear(k)

\* C3: when the contact stage has finished, no grain was resolved against
\* itself and every pair of grains that overlap, directly or across the
\* periodic edge, was given its force exactly once.
C3_EachPairOnce ==
  pc = "apply_bc" =>
    /\ \A i \in Grains : hits[<<i, i>>] = 0
    /\ \A i, j \in Grains :
         (i < j /\ \E shift \in Shifts : Delta(i, j, shift) > 0)
           => hits[<<i, j>>] + hits[<<j, i>>] = 1

\* C4: whatever resolve adds to grain i it subtracts from grain j, so the
\* contact forces (force minus the gravity term) sum to zero during and after
\* the contact stage, in whatever order the grains were processed.
C4_PairSymmetry ==
  /\ \A i, j \in Grains : \A shift \in Shifts :
       resolve(i, j, shift).fi = VNeg(resolve(i, j, shift).fj)
  /\ pc \in {"resolve", "apply_bc"} => ContactForceSum(Grains) = Zero

C4_Witness ==
  /\ pc = "apply_bc"
  /\ \E c \in Grains \X Grains : hits[c] > 0
  /\ \E i \in Grains : gf[i].f # GravityForce(gf[i])

\* C5: after a complete substep every grain has both coordinates in
\* 0 .. length, so that the next grid build computes a cell inside the grid.
C5_PositionInvariant ==
  (pc = "apply_gravity" /\ step > 0) =>
    \A i \in Grains :
      /\ gf[i].p[1] >= 0 /\ gf[i].p[1] <= length
      /\ gf[i].p[2] >= 0 /\ gf[i].p[2] <= length

\* C6: apply_bc leaves every grain with r <= y <= length - r; a grain below
\* the floor is put at y = r, a grain above the ceiling at y = length - r,
\* both with the vertical velocity multiplied by -bounce_coef, and any other
\* grain keeps y and its vertical velocity.
C6_BoundedAxis ==
  [][pc = "apply_bc" =>
       \A i \in Grains :
         LET r == gf[i].r
             y == gf[i].p[2]
             vy == gf[i].v[2]
         IN  /\ r <= gf'[i].p[2] /\ gf'[i].p[2] <= length - r
             /\ y - r < 0 =>
                  gf'[i].p[2] = r /\ gf'[i].v[2] = Bounce(vy)
             /\ y + r > length =>
                  gf'[i].p[2] = length - r /\ gf'[i].v[2] = Bounce(vy)
             /\ ~(y - r < 0) /\ ~(y + r > length) =>
                  gf'[i].p[2] = y /\ gf'[i].v[2] = vy]_vars

C6_Witness ==
  /\ pc = "update"
  /\ step = 0
  /\ \E i \in Grains : gf[i].p[2] = gf[i].r /\ gf[i].v[2] = Bounce(1)
  /\ \E i \in Grains : gf[i].p[2] = length - gf[i].r /\ gf[i].v[2] = Bounce(-1)
  /\ \E i \in Grains : gf[i].p[2] = 14

\* C7: apply_bc leaves every grain with 0 <= x < length.
C7_PeriodicWrap ==
  pc = "update" =>
    \A i \in Grains : gf[i].p[1] >= 0 /\ gf[i].p[1] < length

\* C8 as stated: update sets a_new = force / mass, adds (a_old + a_new) * dt / 2
\* to the velocity, then adds velocity * dt + 0.5 * a_old * dt^2 to the
\* position, and stores a_new; mass, radius and force stay.
C8_PositionUsesOldAcceleration ==
  [][pc = "update" =>
       \A i \in Grains :
         LET a_old == gf[i].a
             a_new == VDiv(gf[i].f, gf[i].m)
         IN  /\ gf'[i].a = a_new
             /\ gf'[i].v = VAdd(gf[i].v, VDiv(VScale(dt, VAdd(a_old, a_new)), 2))
             /\ gf'[i].p = VAdd(gf[i].p,
                             VAdd(VScale(dt, gf'[i].v),
                                  VDiv(VScale(dt * dt, a_old), 2)))
             /\ gf'[i].m = gf[i].m /\ gf'[i].r = gf[i].r
             /\ gf'[i].f = gf[i].f]_vars

\* C8 as amended: the same, with the position advanced by
\* velocity * dt + 0.5 * a_new * dt^2, a_new being the acceleration update
\* has just computed from the force.
C8_PositionUsesNewAcceleration ==
  [][pc = "update" =>
       \A i \in Grains :
         LET a_old == gf[i].a
             a_new == VDiv(gf[i].f, gf[i].m)
         IN  /\ gf'[i].a = a_new
             /\ gf'[i].v = VAdd(gf[i].v, VDiv(VScale(dt, VAdd(a_old, a_new)), 2))
             /\ gf'[i].p = VAdd(gf[i].p,
                             VAdd(VScale(dt, gf'[i].v),
                                  VDiv(VScale(dt * dt, a_new), 2)))
             /\ gf'[i].m = gf[i].m /\ gf'[i].r = gf[i].r
             /\ gf'[i].f = gf[i].f]_vars

C8_Witness ==
  /\ pc = "apply_gravity"
  /\ step = 1
  /\ \E i \in Grains : gf[i].a # Zero /\ gf[i].a # <<0, gravity>>

\* C9: for every pair in contact the damping force is
\* normal * (C * dot(vel[j] - vel[i], normal)).
DampAlongNormal(i, j, shift) ==
  LET normal == Normal(i, j, shift)
      V == Dot(VSub(gf[j].v, gf[i].v), normal)
  IN  VDiv(VScale(DampCoef(i, j) * V, normal), norm_scale * norm_scale)

C9_DampingAlongNormal ==
  pc = "resolve" =>
    \A i \in Grains : \A c \in Calls(i) :
      (Dist(i, c.j, c.shift) > 0 /\ Delta(i, c.j, c.shift) > 0)
        => DampForce(i, c.j, c.shift) = DampAlongNormal(i, c.j, c.shift)

\* C10: in the second pass of the grid build, in every interleaving, no two
\* grains receive the same slot, every slot received lies in the range of the
\* grain's own cell, and when the pass completes every cursor is at the end of
\* its cell and every cell's slots hold exactly the grains located in it.
C10_Scatter ==
  /\ pc \in {"scatter", "resolve"} =>
       /\ \A i, j \in Grains \ todo :
            i # j => grain_location[i] # grain_location[j]
       /\ \A i \in Grains \ todo :
            /\ LinearIdx(CellOf(gf[i].p)) \in LinearCells
            /\ grain_location[i] \in Slots(LinearIdx(CellOf(gf[i].p)))
  /\ pc = "resolve" =>
       /\ list_cur = list_tail
       /\ \A k \in LinearCells :
            /\ Slots(k) \subseteq Grains
            /\ {particle_id[s] : s \in Slots(k)}
                 = {i \in Grains : LinearIdx(CellOf(gf[i].p)) = k}

====
